---- MODULE Spec2Model ----
(***************************************************************************)
(* Model of iam_intercomparison_figure (src/iam_intercomparison_figure.py). *)
(*                                                                         *)
(* One call of the function is one behaviour: Init fixes the arguments,    *)
(* every numbered section of the function body is one action, and pc is    *)
(* the position in the body.  A pandas/matplotlib call that raises moves   *)
(* pc to "raised" and records the exception in error.                      *)
(*                                                                         *)
(* Data frames are sequences of rows (records).  Model names and scenario  *)
(* names are integers whose order is the lexicographic order of the names. *)
(* y-coordinates produced by matplotlib are kept exact as integers in      *)
(* units of 1/20000 (YUnit per 1.0): quartiles need quarters, axis margins *)
(* need 1/20 of a range, and the label height needs 3/5 of the upper limit.*)
(***************************************************************************)
EXTENDS Integers, Sequences, FiniteSets

\* ------------------------------------------------------------ bounds
MaxScenarios == 9      \* longest scenario list of the layout inputs
MaxModelRows == 3      \* rows of study_df in the colour inputs
MaxFunnelRows == 2     \* rows of study_df in the funnel inputs
MaxEnsembleRows == 2   \* rows of AR6_df in the ensemble inputs
PaletteLen == 2        \* len(plt.rcParams['axes.prop_cycle']) colours

\* ------------------------------------------------------------ input domains
ModelNames == {1, 2, 3}
ScenarioNames == {1, 2}
Years == {2010, 2020, 2030}
Values == {-2, 10}
Categories == {"C1", "C2", "C3"}
EnsembleYears == {2030, 2050}
EnsembleRegions == {"EU28", "US"}

region_list == <<"EU28", "EU27">>

\* ------------------------------------------------------------ sequences
Range(s) == {s[i] : i \in DOMAIN s}

SeqsUpTo(S, k) == UNION {[1..m -> S] : m \in 0..k}

Min(S) == CHOOSE x \in S : \A y \in S : x <= y
Max(S) == CHOOSE x \in S : \A y \in S : x >= y
Abs(x) == IF x < 0 THEN -x ELSE x

\* pandas Series.unique(): the distinct values in order of first appearance
RECURSIVE Unique(_)
Unique(s) ==
    IF s = <<>> THEN <<>>
    ELSE LET r == Unique(SubSeq(s, 1, Len(s) - 1))
         IN  IF s[Len(s)] \in Range(r) THEN r ELSE Append(r, s[Len(s)])

RECURSIVE Insert(_, _)
Insert(x, s) ==
    IF s = <<>> THEN <<x>>
    ELSE IF x <= s[1] THEN <<x>> \o s
    ELSE <<s[1]>> \o Insert(x, Tail(s))

\* sorted(...): ascending order, duplicates kept
RECURSIVE Sorted(_)
Sorted(s) == IF s = <<>> THEN <<>> ELSE Insert(s[1], Sorted(Tail(s)))

\* column of values of a frame
ValuesOf(df) == [i \in DOMAIN df |-> df[i].value]

\* ------------------------------------------------------------ rows
HistRow(y, v) == [region |-> "EU28", year |-> y, value |-> v]

StudyRow(m, s, y, v) ==
    [model |-> m, scenario |-> s, region |-> "EU27", year |-> y, value |-> v,
     study |-> <<"IAM", "COMPACT">>, variable |-> "Final Energy", unit |-> "EJ/yr"]

EnsembleRow(c, y, r, v) == [Category |-> c, year |-> y, region |-> r, value |-> v]

VARIABLES
    hist_df, AR6_df, study_df, scenarios, box_cats,   \* the arguments
    pc, error,                                        \* position, exception raised
    meta,                                             \* study_name, var, region_label, unit
    cats, data2050,                                   \* section 2
    n, is_even, models, model_colors, box_colors,     \* sections 3-4
    total_panels, ncols, nrows, axes,                 \* section 5
    idx,                                              \* loop index of section 6
    model_handles, box_handles,                       \* section 8
    fig_legends,                                      \* legends owned by the figure
    fig_titles                                        \* suptitle and supylabel

args == <<hist_df, AR6_df, study_df, scenarios, box_cats>>
locals == <<meta, cats, data2050, n, is_even, models, model_colors, box_colors,
            total_panels, ncols, nrows, axes, idx, model_handles, box_handles,
            fig_legends, fig_titles>>
vars == <<args, pc, error, locals>>

\* ------------------------------------------------------------ section 1
\* study_df[...].iat[0] needs a first row; re.sub(r'^EU.*', 'EU', region)
RegionLabel(r) == IF r \in {"EU28", "EU27"} THEN "EU" ELSE r

\* str.replace("_", " "): the words of the study name, joined by blanks
StudyName(words) == [words |-> words, sep |-> " "]

Metadata(df) ==
    [study_name |-> StudyName(df[1].study), var |-> df[1].variable,
     region_label |-> RegionLabel(region_list[1]), unit |-> df[1].unit]

\* ------------------------------------------------------------ section 2
\* bx[bx['Category'] == c]['value'].values
CategoryValues(bx, c) ==
    LET InCat(row) == row.Category = c
    IN  ValuesOf(SelectSeq(bx, InCat))

Data2050(bx, cs) == [i \in DOMAIN cs |-> CategoryValues(bx, cs[i])]

\* ------------------------------------------------------------ sections 3-5
IsEven(k) == k % 2 = 0

\* variant: the odd case gets no extra cell
TotalPanelsNoExtra(k) == k

TotalPanels(k) == k + (IF IsEven(k) THEN 0 ELSE 1)

\* int(math.ceil(math.sqrt(p)))
CeilSqrt(p) == CHOOSE c \in 0..p : c * c >= p /\ \A d \in 0..(c - 1) : d * d < p

\* int(math.ceil(a / b)), b > 0
CeilDiv(a, b) == (a + b - 1) \div b

\* variant: the models in order of first appearance, not sorted
ModelsUnsorted(df) == Unique([i \in DOMAIN df |-> df[i].model])

\* sorted(study_df['model'].unique())
Models(df) == Sorted(Unique([i \in DOMAIN df |-> df[i].model]))

Palette == [i \in 0..(PaletteLen - 1) |-> <<"palette", i>>]
Black == <<"black", 0>>

\* {m: palette[i % len(palette)] for i, m in enumerate(models)}
ModelColors(ms) ==
    [m \in Range(ms) |->
        LET i == (CHOOSE j \in DOMAIN ms : ms[j] = m) - 1
        IN  Palette[i % PaletteLen]]

Ramp == <<"#ffcccc", "#ff6666", "#cc0000">>

\* variant: colours keyed by category name instead of by position
BoxColorsByName(cs) ==
    [c \in Range(cs) |->
        CASE c = "C1" -> "#ffcccc" [] c = "C2" -> "#ff6666" [] OTHER -> "#cc0000"]

\* {cats[0]: '#ffcccc', cats[1]: '#ff6666', cats[2]: '#cc0000'}: a repeated
\* key keeps the value of its last occurrence
BoxColors(cs) ==
    [c \in Range(cs) |-> Ramp[Max({i \in 1..3 : cs[i] = c})]]

BlankAxes ==
    [axis_on |-> TRUE, title |-> 0, lines |-> <<>>, bands |-> <<>>, boxes |-> <<>>,
     datalim |-> {}, ylim |-> <<>>, vlines |-> <<>>, texts |-> <<>>, xlim |-> <<>>,
     children |-> <<>>, legend_ |-> <<>>]

\* plt.subplots(nrows, ncols, sharey=True) flattened: cells 0 .. nrows*ncols-1
Subplots(r, c) == [i \in 0..(r * c - 1) |-> BlankAxes]
\* ------------------------------------------------------------ section 6
BaseYear == 2020
YUnit == 20000              \* integer units per 1.0 on the y-axis
Quarter == YUnit \div 4     \* integer units per 1/4

Points(df) == [i \in DOMAIN df |-> <<df[i].year, df[i].value>>]

\* study_df[study_df['scenario'] == scen]
ScenarioRows(df, scen) ==
    LET OfScen(row) == row.scenario = scen
    IN  SelectSeq(df, OfScen)

\* ax.plot(hist_df['year'], hist_df['value'], '--k', lw=2)
HistLine(df) == [style |-> "--", model |-> 0, color |-> Black, points |-> Points(df)]

\* for model, grp in df_s.groupby('model'): one line per model of the
\* scenario, groups in ascending model order, rows in frame order
ModelLines(df_s, colors) ==
    LET ms == Models(df_s)
    IN  [i \in DOMAIN ms |->
            LET OfModel(row) == row.model = ms[i]
            IN  [style |-> "-", model |-> ms[i], color |-> colors[ms[i]],
                 points |-> Points(SelectSeq(df_s, OfModel))]]

\* variant: the base year itself is left out of the funnel
PostRowsAfterBase(df_s) ==
    LET Post(row) == row.year > 2020
    IN  SelectSeq(df_s, Post)

\* df_s[df_s['year'] >= 2020]
PostRows(df_s) ==
    LET Post(row) == row.year >= BaseYear
    IN  SelectSeq(df_s, Post)

\* post.groupby('year')['value'].agg(min_value='min', max_value='max'):
\* one row per distinct year, ascending
FunnelTable(post) ==
    LET ys == Sorted(Unique([i \in DOMAIN post |-> post[i].year]))
    IN  [i \in DOMAIN ys |->
            LET vs == {post[j].value : j \in {k \in DOMAIN post : post[k].year = ys[i]}}
            IN  [year |-> ys[i], min_value |-> Min(vs), max_value |-> Max(vs)]]

\* if not post.empty: ax.fill_between(...)
Funnel(df_s) ==
    LET post == PostRows(df_s)
    IN  IF post = <<>> THEN <<>> ELSE <<FunnelTable(post)>>

\* numpy percentile (linear interpolation) of a sorted sample, times 4;
\* k = 1 for the 25th and k = 3 for the 75th percentile
Quartile4(x, k) ==
    LET h == (Len(x) - 1) * k
        j == h \div 4 + 1
        r == h % 4
    IN  IF r = 0 THEN 4 * x[j] ELSE 4 * x[j] + r * (x[j + 1] - x[j])

\* y-extent, in quarters, of the box and whiskers matplotlib draws for a
\* sample with whis = 1.5 and showfliers=False; an empty sample draws nothing
BoxExtent(sample) ==
    IF sample = <<>> THEN {}
    ELSE LET x == Sorted(sample)
             q1 == Quartile4(x, 1)
             q3 == Quartile4(x, 3)
             lo == {v \in Range(x) : 8 * v >= 5 * q1 - 3 * q3}
             hi == {v \in Range(x) : 8 * v <= 5 * q3 - 3 * q1}
             whislo == IF lo = {} \/ 4 * Min(lo) > q1 THEN q1 ELSE 4 * Min(lo)
             whishi == IF hi = {} \/ 4 * Max(hi) < q3 THEN q3 ELSE 4 * Max(hi)
         IN  {whislo, q1, q3, whishi}

\* ax.boxplot(data2050, positions=[2052, 2054, 2056], ...) and the face
\* colour given to box i from box_colors[cats[i]]
Boxes(data, cs, colors) ==
    [i \in DOMAIN cs |->
        [position |-> 2050 + 2 * i, sample |-> data[i], facecolor |-> colors[cs[i]]]]

\* y data (in quarters) that one panel adds to the shared y-axis
PanelData(hist, df_s, data) ==
    {4 * hist[i].value : i \in DOMAIN hist}
        \cup {4 * df_s[i].value : i \in DOMAIN df_s}
        \cup UNION {BoxExtent(data[i]) : i \in DOMAIN data}

\* Locator.nonsingular(v0, v1) with expander 0.05, in y units
Nonsingular(lo, hi) ==
    IF hi - lo > 0 THEN <<lo, hi>>
    ELSE IF lo = 0 THEN <<-(YUnit \div 20), YUnit \div 20>>
    ELSE <<lo - Abs(lo) \div 20, hi + Abs(hi) \div 20>>

\* ax.get_ylim() of an autoscaled axis (margin 0.05) whose y-axis is shared
\* by axes holding the data S (in quarters); no data gives (-0.055, 0.055)
GetYlim(S) ==
    LET base == IF S = {} THEN <<-(YUnit \div 20), YUnit \div 20>>
                ELSE Nonsingular(Quarter * Min(S), Quarter * Max(S))
        delta == (base[2] - base[1]) \div 20
    IN  <<base[1] - delta, base[2] + delta>>

\* ymax * 0.60
LabelY(ymax) == (ymax * 3) \div 5

\* one pass of the loop body for scenario scen on a blank axis, where shared
\* is the y data already drawn on the other axes
PlotPanel(ax, scen, hist, study, data, cs, mcolors, bcolors, shared) ==
    LET df_s == ScenarioRows(study, scen)
        own == PanelData(hist, df_s, data)
        ylim == GetYlim(shared \cup own)
    IN  [ax EXCEPT
            !.lines = <<HistLine(hist)>> \o ModelLines(df_s, mcolors),
            !.bands = Funnel(df_s),
            !.boxes = Boxes(data, cs, bcolors),
            !.datalim = own,
            !.ylim = ylim,
            !.vlines = <<BaseYear>>,
            !.texts = <<[x |-> BaseYear, y |-> LabelY(ylim[2]), s |-> "Base year 2020"]>>,
            !.title = scen,
            !.xlim = <<2000, 2060>>]
\* ------------------------------------------------------------ section 7
\* variant: the first cell after the scenarios is always skipped
HideFromNext(k, even) == k + 1

\* first index of range(n + (0 if is_even else 1), len(axes))
HideFrom(k, even) == k + (IF even THEN 0 ELSE 1)

HideUnusedAxes(a, k, even) ==
    [j \in DOMAIN a |->
        IF j >= HideFrom(k, even) THEN [a[j] EXCEPT !.axis_on = FALSE] ELSE a[j]]

\* ------------------------------------------------------------ section 8
\* study_df.loc[study_df['model'] == m, 'region'].iat[0]
ModelRegion(df, m) == df[Min({i \in DOMAIN df : df[i].model = m})].region

ModelHandles(hist, study, ms, colors) ==
    <<[style |-> "--", model |-> 0, color |-> Black, region |-> hist[1].region]>>
        \o [i \in DOMAIN ms |->
                [style |-> "-", model |-> ms[i], color |-> colors[ms[i]],
                 region |-> ModelRegion(study, ms[i])]]

BoxHandles(cs, colors) ==
    [i \in DOMAIN cs |-> [facecolor |-> colors[cs[i]], category |-> cs[i]]]

\* ------------------------------------------------------------ section 9
ModelLegend(handles, m, where) ==
    [kind |-> "models", handles |-> handles, title |-> m.study_name, loc |-> where]

CategoryLegend(handles, m, where) ==
    [kind |-> "categories", handles |-> handles,
     title |-> [words |-> <<"AR6", "2050", "projections", m.region_label>>, sep |-> " "],
     loc |-> where]

\* variant: the first legend is not kept with add_artist, so the second
\* call of legend() replaces it
LegendCellNotKept(ax, mleg, blem) ==
    LET off == [ax EXCEPT !.axis_on = FALSE]
    IN  [off EXCEPT !.legend_ = <<blem>>, !.children = <<blem>>]

\* legend_ax.axis('off'); legend_ax.legend(...) makes the legend the axes'
\* current legend (replacing the previous one), add_artist keeps it as a child
LegendCell(ax, mleg, blem) ==
    LET off    == [ax EXCEPT !.axis_on = FALSE]
        first  == [off EXCEPT !.legend_ = <<mleg>>]
        kept   == [first EXCEPT !.children = Append(@, mleg)]
        second == [kept EXCEPT !.legend_ = <<blem>>]
    IN  [second EXCEPT !.children = Append(@, blem)]

\* ------------------------------------------------------------ behaviour
Raise(what) ==
    /\ pc' = "raised"
    /\ error' = what

\* section 1: study_df[...].iat[0] raises IndexError on a frame without rows
ReadMetadata ==
    /\ pc = "metadata"
    /\ IF study_df = <<>>
       THEN Raise("IndexError") /\ UNCHANGED meta
       ELSE /\ meta' = Metadata(study_df)
            /\ pc' = "boxdata"
            /\ UNCHANGED error
    /\ UNCHANGED <<args, cats, data2050, n, is_even, models, model_colors, box_colors,
                   total_panels, ncols, nrows, axes, idx, model_handles, box_handles,
                   fig_legends, fig_titles>>

\* section 2
BoxplotData ==
    /\ pc = "boxdata"
    /\ cats' = box_cats
    /\ data2050' = Data2050(AR6_df, box_cats)
    /\ pc' = "layout"
    /\ UNCHANGED <<args, error, meta, n, is_even, models, model_colors, box_colors,
                   total_panels, ncols, nrows, axes, idx, model_handles, box_handles,
                   fig_legends, fig_titles>>

\* sections 3-5: no scenario gives ncols = 0 and total_panels / ncols raises
ColorsAndGrid ==
    /\ pc = "layout"
    /\ n' = Len(scenarios)
    /\ is_even' = IsEven(Len(scenarios))
    /\ models' = Models(study_df)
    /\ model_colors' = ModelColors(Models(study_df))
    /\ box_colors' = BoxColors(cats)
    /\ total_panels' = TotalPanels(Len(scenarios))
    /\ ncols' = CeilSqrt(TotalPanels(Len(scenarios)))
    /\ IF CeilSqrt(TotalPanels(Len(scenarios))) = 0
       THEN Raise("ZeroDivisionError") /\ UNCHANGED <<nrows, axes>>
       ELSE /\ nrows' = CeilDiv(total_panels', ncols')
            /\ axes' = Subplots(nrows', ncols')
            /\ pc' = "plot"
            /\ UNCHANGED error
    /\ UNCHANGED <<args, meta, cats, data2050, idx, model_handles, box_handles,
                   fig_legends, fig_titles>>

\* section 6: one iteration of the loop over the scenarios
PlotScenario ==
    /\ pc = "plot"
    /\ idx < n
    /\ axes' = [axes EXCEPT ![idx] =
                    PlotPanel(@, scenarios[idx + 1], hist_df, study_df, data2050, cats,
                              model_colors, box_colors,
                              UNION {axes[j].datalim : j \in DOMAIN axes})]
    /\ idx' = idx + 1
    /\ UNCHANGED <<args, pc, error, meta, cats, data2050, n, is_even, models,
                   model_colors, box_colors, total_panels, ncols, nrows,
                   model_handles, box_handles, fig_legends, fig_titles>>

\* section 7
HideUnused ==
    /\ pc = "plot"
    /\ idx = n
    /\ axes' = HideUnusedAxes(axes, n, is_even)
    /\ pc' = "handles"
    /\ UNCHANGED <<args, error, meta, cats, data2050, n, is_even, models, model_colors,
                   box_colors, total_panels, ncols, nrows, idx, model_handles,
                   box_handles, fig_legends, fig_titles>>

\* section 8: hist_df['region'].iat[0] raises IndexError on a frame without rows
LegendHandles ==
    /\ pc = "handles"
    /\ IF hist_df = <<>>
       THEN Raise("IndexError") /\ UNCHANGED <<model_handles, box_handles>>
       ELSE /\ model_handles' = ModelHandles(hist_df, study_df, models, model_colors)
            /\ box_handles' = BoxHandles(cats, box_colors)
            /\ pc' = "legends"
            /\ UNCHANGED error
    /\ UNCHANGED <<args, meta, cats, data2050, n, is_even, models, model_colors,
                   box_colors, total_panels, ncols, nrows, axes, idx, fig_legends, fig_titles>>

\* section 9, is_even: both legends belong to the figure
PlaceLegendsFigure ==
    /\ pc = "legends"
    /\ is_even
    /\ fig_legends' = <<ModelLegend(model_handles, meta, "center left"),
                        CategoryLegend(box_handles, meta, "center left")>>
    /\ pc' = "title"
    /\ UNCHANGED <<args, error, meta, cats, data2050, n, is_even, models, model_colors,
                   box_colors, total_panels, ncols, nrows, axes, idx, model_handles,
                   box_handles, fig_titles>>

\* section 9, odd: both legends go into axes[n]
PlaceLegendsCell ==
    /\ pc = "legends"
    /\ ~is_even
    /\ axes' = [axes EXCEPT ![n] =
                    LegendCell(@, ModelLegend(model_handles, meta, "upper center"),
                               CategoryLegend(box_handles, meta, "lower center"))]
    /\ pc' = "title"
    /\ UNCHANGED <<args, error, meta, cats, data2050, n, is_even, models, model_colors,
                   box_colors, total_panels, ncols, nrows, idx, model_handles,
                   box_handles, fig_legends, fig_titles>>

\* section 10: fig.suptitle(study name, variable, region label) and
\* fig.supylabel(ylabel), where ylabel is the unit set in the loop body
TitleAndShow ==
    /\ pc = "title"
    /\ fig_titles' = [suptitle |-> <<meta.study_name, meta.var, meta.region_label>>,
                      supylabel |-> meta.unit]
    /\ pc' = "done"
    /\ UNCHANGED <<args, error, meta, cats, data2050, n, is_even, models, model_colors,
                   box_colors, total_panels, ncols, nrows, axes, idx, model_handles,
                   box_handles, fig_legends>>

\* ------------------------------------------------------------ arguments
DefaultHist == <<HistRow(2010, 10)>>
DefaultStudy == <<StudyRow(1, 1, 2020, 10)>>
DefaultEnsemble == <<EnsembleRow("C1", 2050, "EU28", 10), EnsembleRow("C2", 2050, "EU28", 10),
                     EnsembleRow("C3", 2050, "EU28", 10)>>
DefaultCats == <<"C1", "C2", "C3">>

ScenarioList(k) == [i \in 1..k |-> i]
ShortLists == {<<1>>, <<1, 2>>}

Permutations3(S) ==
    {<<a, b, c>> : a \in S, b \in S, c \in S} \cap
    {p \in [1..3 -> S] : Cardinality(Range(p)) = 3}

ColourRows == {StudyRow(m, s, 2020, 10) : m \in ModelNames, s \in ScenarioNames}
FunnelRows == {StudyRow(m, s, y, v) : m \in {1, 2}, s \in ScenarioNames, y \in Years, v \in Values}
EnsembleRows == {EnsembleRow(c, y, r, v) :
                    c \in Categories, y \in EnsembleYears, r \in EnsembleRegions, v \in Values}

\* scenario lists of every length, with or without a historical series
LayoutArgs ==
    /\ scenarios \in {ScenarioList(k) : k \in 0..MaxScenarios}
    /\ hist_df \in {<<>>, DefaultHist}
    /\ study_df = DefaultStudy
    /\ AR6_df = DefaultEnsemble
    /\ box_cats = DefaultCats

\* study frames that differ in the models, their order and their scenarios
ColourArgs ==
    /\ scenarios \in ShortLists \cup {<<2, 1>>}
    /\ hist_df = DefaultHist
    /\ study_df \in SeqsUpTo(ColourRows, MaxModelRows)
    /\ AR6_df = DefaultEnsemble
    /\ box_cats = DefaultCats

\* study frames that differ in years and values; no ensemble rows
FunnelArgs ==
    /\ scenarios \in ShortLists
    /\ hist_df \in {<<>>, DefaultHist}
    /\ study_df \in SeqsUpTo(FunnelRows, MaxFunnelRows)
    /\ AR6_df = <<>>
    /\ box_cats = DefaultCats

\* the three categories in every order
CategoryArgs ==
    /\ scenarios \in ShortLists
    /\ hist_df = DefaultHist
    /\ study_df = DefaultStudy
    /\ AR6_df = DefaultEnsemble
    /\ box_cats \in Permutations3(Categories)

\* ensemble frames that differ in category, year, region and value
EnsembleArgs ==
    /\ scenarios \in ShortLists
    /\ hist_df = DefaultHist
    /\ study_df = DefaultStudy
    /\ AR6_df \in SeqsUpTo(EnsembleRows, MaxEnsembleRows)
    /\ box_cats = DefaultCats

Init ==
    /\ LayoutArgs \/ ColourArgs \/ FunnelArgs \/ CategoryArgs \/ EnsembleArgs
    /\ pc = "metadata"
    /\ error = "none"
    /\ meta = <<>>
    /\ cats = <<>>
    /\ data2050 = <<>>
    /\ n = 0
    /\ is_even = TRUE
    /\ models = <<>>
    /\ model_colors = <<>>
    /\ box_colors = <<>>
    /\ total_panels = 0
    /\ ncols = 0
    /\ nrows = 0
    /\ axes = <<>>
    /\ idx = 0
    /\ model_handles = <<>>
    /\ box_handles = <<>>
    /\ fig_legends = <<>>
    /\ fig_titles = <<>>

Next ==
    \/ ReadMetadata
    \/ BoxplotData
    \/ ColorsAndGrid
    \/ PlotScenario
    \/ HideUnused
    \/ LegendHandles
    \/ PlaceLegendsFigure
    \/ PlaceLegendsCell
    \/ TitleAndShow

Spec == Init /\ [][Next]_vars

Done == pc = "done"
\* ------------------------------------------------------------ properties
GridBuilt == axes # <<>>
Drawn == {i \in DOMAIN axes : i < idx}            \* panels the loop has drawn
LegendsOf(ax) == Range(ax.children) \cup Range(ax.legend_)
Kinds(legends) == {l.kind : l \in legends}

\* C1: for every scenario count n >= 1 the panel count is n when n is even
\* and n + 1 when n is odd, ncols is the least integer whose square reaches
\* the panel count, nrows the least integer with nrows * ncols reaching it,
\* so the grid has a cell for every panel and ncols - nrows is 0 or 1.
C1_GridShape ==
    (GridBuilt /\ Len(scenarios) >= 1) =>
        /\ n = Len(scenarios)
        /\ total_panels = (IF n % 2 = 0 THEN n ELSE n + 1)
        /\ ncols * ncols >= total_panels
        /\ (ncols - 1) * (ncols - 1) < total_panels
        /\ nrows * ncols >= total_panels
        /\ (nrows - 1) * ncols < total_panels
        /\ DOMAIN axes = 0..(nrows * ncols - 1)
        /\ nrows * ncols >= n + (IF n % 2 = 0 THEN 0 ELSE 1)
        /\ 0 <= ncols - nrows
        /\ ncols - nrows <= 1

C1_Witness == Done /\ n = 7 /\ total_panels = 8 /\ ncols = 3 /\ nrows = 3

C9_LegendCellIsLast ==
    (Done /\ n % 2 = 1) =>
        \A j \in DOMAIN axes : LegendsOf(axes[j]) # {} => j = nrows * ncols - 1

\* rows of the study frame that belong to the scenario of panel i
PanelRows(i) == {k \in DOMAIN study_df : study_df[k].scenario = scenarios[i + 1]}
LateRows(i) == {k \in PanelRows(i) : study_df[k].year >= 2020}

\* C4: a drawn panel has no funnel band when its scenario has no row with
\* year >= 2020; otherwise it has one band with exactly one point per
\* distinct year >= 2020 of the scenario's rows, whose lower edge is the
\* least and whose upper edge is the greatest value of that year's rows.
C4_Funnel ==
    \A i \in Drawn :
        IF LateRows(i) = {}
        THEN axes[i].bands = <<>>
        ELSE /\ Len(axes[i].bands) = 1
             /\ LET band == axes[i].bands[1]
                IN  /\ {band[j].year : j \in DOMAIN band} =
                            {study_df[k].year : k \in LateRows(i)}
                    /\ Len(band) = Cardinality({study_df[k].year : k \in LateRows(i)})
                    /\ \A j \in DOMAIN band :
                        LET ks == {k \in LateRows(i) : study_df[k].year = band[j].year}
                        IN  /\ \A k \in ks : /\ band[j].min_value <= study_df[k].value
                                             /\ band[j].max_value >= study_df[k].value
                            /\ \E k \in ks : study_df[k].value = band[j].min_value
                            /\ \E k \in ks : study_df[k].value = band[j].max_value
                            /\ band[j].min_value <= band[j].max_value

C4_Witness ==
    /\ Done
    /\ \E i \in Drawn :
        /\ Len(axes[i].bands) = 1
        /\ \E j \in DOMAIN axes[i].bands[1] :
            /\ axes[i].bands[1][j].year = 2020
            /\ axes[i].bands[1][j].min_value < axes[i].bands[1][j].max_value

C4_WitnessAbsent ==
    Done /\ \E i \in Drawn : PanelRows(i) # {} /\ axes[i].bands = <<>>

\* colour of the model at sorted index i of the distinct model names
StudyModels == {study_df[k].model : k \in DOMAIN study_df}
RankColour(m) == <<"palette", Cardinality({x \in StudyModels : x < m}) % PaletteLen>>

\* C5: the model at sorted index i of the distinct model names of the whole
\* study frame has palette colour i mod len(palette); every line of that
\* model in every panel and its legend entry carry that colour, whatever the
\* row order, the scenario list and the scenarios the model has rows in.
C5_ModelColours ==
    /\ \A i \in Drawn : \A j \in DOMAIN axes[i].lines :
        LET line == axes[i].lines[j]
        IN  line.model # 0 => line.color = RankColour(line.model)
    /\ \A i \in Drawn :
        {axes[i].lines[j].model : j \in DOMAIN axes[i].lines} \ {0} =
            {study_df[k].model : k \in PanelRows(i)}
    /\ pc \in {"legends", "title", "done"} =>
        /\ {model_handles[j].model : j \in DOMAIN model_handles} \ {0} = StudyModels
        /\ \A j \in DOMAIN model_handles :
            model_handles[j].model # 0 =>
                model_handles[j].color = RankColour(model_handles[j].model)

C5_Witness ==
    /\ Done
    /\ StudyModels = {1, 2, 3}
    /\ study_df[1].model = 3
    /\ \E i \in Drawn : \E j \in DOMAIN axes[i].lines :
        /\ axes[i].lines[j].model = 3
        /\ axes[i].lines[j].color = <<"palette", 2 % PaletteLen>>

\* C6 (as claimed): whatever the order of box_cats, C1 is drawn light red,
\* C2 medium red and C3 dark red, in the boxes and in the legend swatches.
NamedColour(c) ==
    CASE c = "C1" -> "#ffcccc" [] c = "C2" -> "#ff6666" [] c = "C3" -> "#cc0000"

PositionColour(j) ==
    CASE j = 1 -> "#ffcccc" [] j = 2 -> "#ff6666" [] j = 3 -> "#cc0000"

TargetRows(c) ==
    {k \in DOMAIN AR6_df :
        /\ AR6_df[k].Category = c
        /\ AR6_df[k].year = 2050
        /\ AR6_df[k].region \in Range(region_list)}

C7_SampleIsTargetYear ==
    cats # <<>> =>
        \A i \in DOMAIN data2050 :
            /\ Len(data2050[i]) = Cardinality(TargetRows(cats[i]))
            /\ \A v \in Range(data2050[i]) :
                Cardinality({j \in DOMAIN data2050[i] : data2050[i][j] = v}) =
                    Cardinality({k \in TargetRows(cats[i]) : AR6_df[k].value = v})

\* C8 (as claimed): with at least one scenario the call never raises,
\* whichever of the frames or filtered subsets is empty.
C8_NeverRaises == Len(scenarios) >= 1 => error = "none"

\* C10 (as claimed): in every drawn panel the y-coordinate of the
\* 'Base year 2020' label lies inside the y-range read before placing it.
C10_LabelInsideRange ==
    \A i \in Drawn :
        /\ axes[i].ylim[1] <= axes[i].texts[1].y
        /\ axes[i].texts[1].y <= axes[i].ylim[2]
====
